---- MODULE Spec2Model ----
(***************************************************************************)
(* Authentication session / token lifecycle of the AURA Journal auth       *)
(* service (backend/services/auth_service).                                *)
(*                                                                         *)
(* The persistence store (tables users and user_sessions) is shared by all *)
(* request handlers.  A handler is a sequence of committed database        *)
(* statements; handlers of different requests interleave between commits.  *)
(* Each element of Procs is one request-handling context.                  *)
(*                                                                         *)
(* Time is counted in clock units, ClockResolution of them to a second.    *)
(***************************************************************************)
EXTENDS Integers, Sequences, FiniteSets, TLC

\* ---------------------------------------------------------------- bounds
MaxSessions == 1   \* logins that may create a session row
MaxRefresh  == 2   \* refresh calls that may pass validation
MaxTicks    == 2   \* clock advances
MaxFineTicks == 5  \* clock advances of the clock specification
MaxDevices  == 2   \* session rows of the device specification

\* Clock readings per second (datetime.now has microseconds)
ClockResolution == 4

Procs     == {"p1", "p2"}
Emails    == {"a@x.com"}
Passwords == {"Abcdef1!", "wrong"}

\* The unique index on users.email bounds the table
UserIds == 1..Cardinality(Emails)

\* Email addresses of the account specification: two that differ only in
\* the case of a letter, and a third
AccountEmails == {"a@x.com", "A@x.com", "b@x.com"}

AccountUserIds == 1..Cardinality(AccountEmails)

\* Request contexts in a fixed order: a new request takes the first free one
ProcOrder == <<"p1", "p2">>

\* ------------------------------------------------------ program constants
ACCESS_TOKEN_EXPIRE_MINUTES == 30
REFRESH_TOKEN_EXPIRE_DAYS   == 7
MinutesPerDay               == 1440
SecondsPerMinute            == 60

\* timedelta(minutes=...), timedelta(days=...) in clock units
AccessTTL  == ACCESS_TOKEN_EXPIRE_MINUTES * SecondsPerMinute * ClockResolution
RefreshTTL == REFRESH_TOKEN_EXPIRE_DAYS * MinutesPerDay * SecondsPerMinute
                  * ClockResolution

\* Clock advances the model takes: an access-token lifetime, a refresh-token
\* lifetime.
TickSteps == {AccessTTL, RefreshTTL}

\* Clock advances of the clock specification: one clock unit, and one unit
\* less than each lifetime
FineTickSteps == {1, AccessTTL - 1, RefreshTTL - 1}

VARIABLES
    now,        \* current time (datetime.now)
    ticks,      \* clock advances taken
    users,      \* table users: sequence of rows, user_id = index
    sessions,   \* table user_sessions: sequence of rows, session_id = index
    nextJti,    \* per session row: tokens signed for it so far (jti is a fresh uuid4)
    pc,         \* per request context: position in its handler
    loc,        \* per request context: the handler's local variables
    issued,     \* tokens returned to callers
    discarded,  \* tokens signed by login with the temporary session id
    refreshed,  \* refresh calls that returned: the token presented, the one returned
    logouts,    \* logout calls whose token named a session row: the token, and
                \* whether its hash was the stored one at the time
    nRefresh,   \* refresh calls that passed validation
    sessionExpired,
                \* refresh calls rejected with "Session expired": the token
    signedAt,   \* every token signed, and the time create_*_token read
    entries,    \* entry ingestor, table journal_entries: committed rows,
                \* entry_id = index
    insights,   \* entry ingestor, collection insights: documents inserted
    analyzeCalls,
                \* calls of nlp_client.analyze_text: the entry and the text
    storeCalls, \* calls of insight_storage.store_insight: the arguments
    returned    \* what create_entry returned: the entry and its analysis

\* the variables of the entry ingestor
entryVars == <<entries, insights, analyzeCalls, storeCalls, returned>>

vars == <<now, ticks, users, sessions, nextJti, pc, loc,
          issued, discarded, refreshed, logouts, nRefresh,
          sessionExpired, signedAt, entryVars>>

\* ------------------------------------------------------------- identifiers
\* str(uuid) as stored in a token payload, and uuid.UUID(str) parsing it back
UuidStr(id) == [hex |-> id]
UuidParse(s) == s.hex

\* A temporary id that is the id the new session row will get
TempSessionId_of_row(n) == n

\* uuid.uuid4() of authenticate_user: an id that names no session row
TempSessionId(n) == 0 - n

\* uuid.uuid4() of a token's jti: the n-th token signed for session row s
Uuid4(s, n) == <<s, n>>

\* ------------------------------------------------------------------ tokens
MalformedToken == [token_type |-> "garbage"]

\* A datetime as the NumericDate of a token claim (TokenPayload.exp is an
\* int): whole seconds, the fraction dropped; kept in clock units
numeric_date(t) == (t \div ClockResolution) * ClockResolution

\* An access token given the lifetime of a refresh token
create_access_token_long(user_id, email, session_id, t, jti) ==
    [token_type |-> "access", user_id |-> user_id, email |-> email,
     session_id |-> session_id, exp |-> numeric_date(t + RefreshTTL),
     jti |-> jti]

create_access_token(user_id, email, session_id, t, jti) ==
    [token_type |-> "access", user_id |-> user_id, email |-> email,
     session_id |-> session_id, exp |-> numeric_date(t + AccessTTL),
     jti |-> jti]

create_refresh_token(user_id, email, session_id, t, jti) ==
    [token_type |-> "refresh", user_id |-> user_id, email |-> email,
     session_id |-> session_id, exp |-> numeric_date(t + RefreshTTL),
     jti |-> jti]

\* jwt.decode: signature/structure, then the exp claim against the clock
\* in whole seconds
jwt_decode(token, t) ==
    IF token = MalformedToken THEN "JWTError"
    ELSE IF numeric_date(t) > token.exp THEN "JWTError"
    ELSE "ok"

\* A verify_token that does not compare token_type
verify_token_anytype(token, expected_type, t) ==
    IF jwt_decode(token, t) # "ok" THEN "ValueError"
    ELSE IF t > token.exp THEN "ValueError"
    ELSE "ok"

\* verify_token: "ok" or the ValueError it raises
verify_token(token, expected_type, t) ==
    IF jwt_decode(token, t) # "ok" THEN "ValueError"
    ELSE IF token.token_type # expected_type THEN "ValueError"
    ELSE IF t > token.exp THEN "ValueError"
    ELSE "ok"

\* A digest that leaves out the token id
hash_refresh_token_nojti(token) ==
    [sha256 |-> [token EXCEPT !.jti = <<0, 0>>]]

hash_refresh_token(token) == [sha256 |-> token]

\* -------------------------------------------------------------- passwords
\* UserCreate.validate_password_strength on the passwords of the model
validate_password_strength(password) == password = "Abcdef1!"

hash_password(password) == [bcrypt |-> password]
verify_password(plain, hashed) == hashed = hash_password(plain)

\* ------------------------------------------------------------ repositories
get_by_email(email) ==
    {u \in DOMAIN users : users[u].email = email}

email_exists(email) == get_by_email(email) # {}

\* A users table without the unique index on email
IntegrityError_never(us, email) == FALSE

\* The unique index on users.email refuses the insert of a row with email
IntegrityError(us, email) == \E u \in DOMAIN us : us[u].email = email

\* A lookup that forgets the is_active filter
get_active_session_any(ss, sid) ==
    IF sid \in DOMAIN ss THEN {sid} ELSE {}

get_active_session(ss, sid) ==
    IF sid \in DOMAIN ss /\ ss[sid].is_active THEN {sid} ELSE {}

\* An update that writes the whole row back, active
update_refresh_token_whole_row(ss, sid, h, e) ==
    IF sid \in DOMAIN ss
    THEN [ss EXCEPT ![sid].refresh_token_hash = h, ![sid].expires_at = e,
                    ![sid].is_active = TRUE]
    ELSE ss

\* BaseRepository.update on a session: only the named columns are written
update_refresh_token(ss, sid, h, e) ==
    IF sid \in DOMAIN ss
    THEN [ss EXCEPT ![sid].refresh_token_hash = h, ![sid].expires_at = e]
    ELSE ss

\* An update that hands back a row it has made up for an id it did not find
update_refresh_token_result_made_up(ss, sid, h, e) ==
    IF sid \in DOMAIN ss
    THEN {update_refresh_token(ss, sid, h, e)[sid]}
    ELSE {[user_id |-> 0, refresh_token_hash |-> h, expires_at |-> e,
           is_active |-> TRUE]}

\* The value update_refresh_token returns: the updated row, or None ({})
update_refresh_token_result(ss, sid, h, e) ==
    IF sid \in DOMAIN ss
    THEN {update_refresh_token(ss, sid, h, e)[sid]}
    ELSE {}

\* An invalidate_session that ends every session of the session's account
invalidate_session_of_owner(ss, sid) ==
    IF sid \in DOMAIN ss
    THEN [s \in DOMAIN ss |->
             IF ss[s].user_id = ss[sid].user_id
             THEN [ss[s] EXCEPT !.is_active = FALSE]
             ELSE ss[s]]
    ELSE ss

\* An invalidate_session that never commits the flag
invalidate_session_uncommitted(ss, sid) == ss

\* An invalidate_session that reports whether the session was active
invalidate_session_result_was_active(ss, sid) ==
    sid \in DOMAIN ss /\ ss[sid].is_active

\* invalidate_session: the table afterwards, and the value returned
invalidate_session(ss, sid) ==
    IF sid \in DOMAIN ss THEN [ss EXCEPT ![sid].is_active = FALSE] ELSE ss

invalidate_session_result(ss, sid) == sid \in DOMAIN ss

NoLoc == [op |-> "none"]

\* p is the context a new request is handled in
Free(p) ==
    /\ pc[p] = "idle"
    /\ \A i, j \in DOMAIN ProcOrder :
          (ProcOrder[j] = p /\ i < j) => pc[ProcOrder[i]] # "idle"

Init ==
    /\ now = 0
    /\ ticks = 0
    /\ users = <<>>
    /\ sessions = <<>>
    /\ nextJti = <<>>
    /\ pc = [p \in Procs |-> "idle"]
    /\ loc = [p \in Procs |-> NoLoc]
    /\ issued = {}
    /\ discarded = {}
    /\ refreshed = {}
    /\ logouts = {}
    /\ nRefresh = 0
    /\ sessionExpired = {}
    /\ signedAt = {}
    /\ entries = <<>>
    /\ insights = <<>>
    /\ analyzeCalls = <<>>
    /\ storeCalls = <<>>
    /\ returned = {}

\* The clock advances, between any two steps of any handler.
Tick ==
    /\ ticks < MaxTicks
    /\ \E d \in TickSteps : now' = now + d
    /\ ticks' = ticks + 1
    /\ UNCHANGED <<users, sessions, nextJti, pc, loc, issued, discarded,
                   refreshed, logouts, nRefresh,
                   sessionExpired, signedAt>>
    /\ UNCHANGED entryVars

\* ------------------------------------------------------------ create_user
\* create_user up to the email_exists check: "pass" or the ValueError raised
create_user_check(us, email) ==
    IF \E u \in DOMAIN us : us[u].email = email
    THEN "User with this email already exists"
    ELSE "pass"

RegisterCheck(p, email, password) ==
    /\ Free(p)
    /\ validate_password_strength(password)
    /\ IF create_user_check(users, email) = "pass"
       THEN /\ pc' = [pc EXCEPT ![p] = "register_insert"]
            /\ loc' = [loc EXCEPT ![p] = [op |-> "register", email |-> email,
                                          password_hash |-> hash_password(password)]]
       ELSE UNCHANGED <<pc, loc>>
    /\ UNCHANGED <<now, ticks, users, sessions, nextJti, issued, discarded,
                   refreshed, logouts, nRefresh,
                   sessionExpired, signedAt>>
    /\ UNCHANGED entryVars

\* create_user from the insert on: "created" or the ValueError raised for
\* the IntegrityError of the insert
create_user_insert(us, email) ==
    IF IntegrityError(us, email)
    THEN "User with this email already exists"
    ELSE "created"

\* user_repo.create_user: the insert, refused by the unique index on email
\* (IntegrityError, rolled back and reported as the same ValueError)
RegisterInsert(p) ==
    /\ pc[p] = "register_insert"
    /\ IF create_user_insert(users, loc[p].email) # "created"
       THEN UNCHANGED users
       ELSE users' = Append(users, [email |-> loc[p].email,
                                    password_hash |-> loc[p].password_hash,
                                    is_active |-> TRUE,
                                    last_login |-> -1])
    /\ pc' = [pc EXCEPT ![p] = "idle"]
    /\ loc' = [loc EXCEPT ![p] = NoLoc]
    /\ UNCHANGED <<now, ticks, sessions, nextJti, issued, discarded,
                   refreshed, logouts, nRefresh,
                   sessionExpired, signedAt>>
    /\ UNCHANGED entryVars

\* ------------------------------------------------------ authenticate_user
\* An authenticate_user that does not verify the password
login_user_found_any_password(us, email, password) ==
    {u \in DOMAIN us : us[u].email = email /\ us[u].is_active}

\* The account authenticate_user accepts for the credentials, if any
login_user_found(us, email, password) ==
    {u \in DOMAIN us : /\ us[u].email = email
                       /\ us[u].is_active
                       /\ verify_password(password, us[u].password_hash)}

\* An authenticate_user that tells the caller the email is unknown
authenticate_check_telling(us, email, password) ==
    LET found == {u \in DOMAIN us : us[u].email = email} IN
    IF found = {} THEN "User not found"
    ELSE IF \E u \in found : ~us[u].is_active THEN "Invalid credentials"
    ELSE IF login_user_found(us, email, password) = {}
         THEN "Invalid credentials"
    ELSE "pass"

\* authenticate_user up to the password check: "pass" or the ValueError raised
authenticate_check(us, email, password) ==
    LET found == {u \in DOMAIN us : us[u].email = email} IN
    IF found = {} \/ \E u \in found : ~us[u].is_active
    THEN "Invalid credentials"
    ELSE IF login_user_found(us, email, password) = {}
         THEN "Invalid credentials"
    ELSE "pass"

\* authenticate_user through session_repo.create_session (committed).  The
\* specifications bound the session rows where they take this step.
LoginCreate(p, email, password) ==
    /\ Free(p)
    /\ IF authenticate_check(users, email, password) # "pass"
       THEN UNCHANGED <<sessions, nextJti, pc, loc, discarded, signedAt>>
       ELSE LET u == CHOOSE x \in login_user_found(users, email, password) : TRUE
                expires_at == now + RefreshTTL
                temp == TempSessionId(Len(sessions) + 1)
                ta == create_access_token(UuidStr(u), email, UuidStr(temp),
                                          now, Uuid4(-temp, 1))
                tr == create_refresh_token(UuidStr(u), email, UuidStr(temp),
                                           now, Uuid4(-temp, 2))
            IN  /\ sessions' = Append(sessions,
                       [user_id |-> u,
                        refresh_token_hash |-> hash_refresh_token(tr),
                        expires_at |-> expires_at,
                        is_active |-> TRUE])
                /\ nextJti' = Append(nextJti, 2)
                /\ discarded' = discarded \cup {ta, tr}
                /\ signedAt' = signedAt \cup {[token |-> ta, at |-> now],
                                             [token |-> tr, at |-> now]}
                /\ pc' = [pc EXCEPT ![p] = "login_rotate"]
                /\ loc' = [loc EXCEPT ![p] =
                       [op |-> "login", user_id |-> u, email |-> email,
                        session_id |-> Len(sessions) + 1,
                        expires_at |-> expires_at]]
    /\ UNCHANGED <<now, ticks, users, issued, refreshed, logouts, nRefresh,
                   sessionExpired>>
    /\ UNCHANGED entryVars

\* authenticate_user from the regeneration of the tokens to the return
LoginRotate(p) ==
    /\ pc[p] = "login_rotate"
    /\ LET u == loc[p].user_id
           sid == loc[p].session_id
           a == create_access_token(UuidStr(u), loc[p].email, UuidStr(sid),
                                    now, Uuid4(sid, nextJti[sid] + 1))
           r == create_refresh_token(UuidStr(u), loc[p].email, UuidStr(sid),
                                     now, Uuid4(sid, nextJti[sid] + 2))
       IN  /\ sessions' = update_refresh_token(sessions, sid,
                              hash_refresh_token(r), loc[p].expires_at)
           /\ users' = [users EXCEPT ![u].last_login = now]
           /\ nextJti' = [nextJti EXCEPT ![sid] = @ + 2]
           /\ issued' = issued \cup {a, r}
           /\ signedAt' = signedAt \cup {[token |-> a, at |-> now],
                                        [token |-> r, at |-> now]}
    /\ pc' = [pc EXCEPT ![p] = "idle"]
    /\ loc' = [loc EXCEPT ![p] = NoLoc]
    /\ UNCHANGED <<now, ticks, discarded, refreshed, logouts, nRefresh,
                   sessionExpired>>
    /\ UNCHANGED entryVars

\* authenticate_user ended by an exception after create_session committed:
\* the caller gets "Authentication failed" and no token
LoginInterrupted(p) ==
    /\ pc[p] = "login_rotate"
    /\ pc' = [pc EXCEPT ![p] = "idle"]
    /\ loc' = [loc EXCEPT ![p] = NoLoc]
    /\ UNCHANGED <<now, ticks, users, sessions, nextJti, issued, discarded,
                   refreshed, logouts, nRefresh,
                   sessionExpired, signedAt>>
    /\ UNCHANGED entryVars

\* --------------------------------------------------------- refresh_tokens
\* A refresh_tokens that does not compare the hash
refresh_validate_nohash(ss, us, token, t) ==
    IF verify_token(token, "refresh", t) # "ok" THEN "Invalid refresh token"
    ELSE LET sid == UuidParse(token.session_id) IN
         IF get_active_session(ss, sid) = {} THEN "Invalid session"
         ELSE IF t > ss[sid].expires_at THEN "Session expired"
         ELSE IF ~(ss[sid].user_id \in DOMAIN us /\ us[ss[sid].user_id].is_active)
              THEN "User not found or inactive"
         ELSE "pass"

\* A refresh_tokens that does not look at the session's expires_at
refresh_validate_noexpiry(ss, us, token, t) ==
    IF verify_token(token, "refresh", t) # "ok" THEN "Invalid refresh token"
    ELSE LET sid == UuidParse(token.session_id) IN
         IF get_active_session(ss, sid) = {} THEN "Invalid session"
         ELSE IF ss[sid].refresh_token_hash # hash_refresh_token(token)
              THEN "Invalid refresh token"
         ELSE IF ~(ss[sid].user_id \in DOMAIN us /\ us[ss[sid].user_id].is_active)
              THEN "User not found or inactive"
         ELSE "pass"

\* refresh_tokens up to the user check: "pass" or the ValueError raised
refresh_validate(ss, us, token, t) ==
    IF verify_token(token, "refresh", t) # "ok" THEN "Invalid refresh token"
    ELSE LET sid == UuidParse(token.session_id) IN
         IF get_active_session(ss, sid) = {} THEN "Invalid session"
         ELSE IF ss[sid].refresh_token_hash # hash_refresh_token(token)
              THEN "Invalid refresh token"
         ELSE IF t > ss[sid].expires_at THEN "Session expired"
         ELSE IF ~(ss[sid].user_id \in DOMAIN us /\ us[ss[sid].user_id].is_active)
              THEN "User not found or inactive"
         ELSE "pass"

\* A refresh_tokens that ends the session on every rejection after it has
\* found the session
refresh_rejected_sessions_ending(ss, us, token, t) ==
    IF refresh_validate(ss, us, token, t)
           \in {"Session expired", "User not found or inactive"}
    THEN invalidate_session(ss, UuidParse(token.session_id))
    ELSE ss

\* A refresh_tokens that ends the session when a token other than the
\* stored one is presented for it
refresh_rejected_sessions_on_reuse(ss, us, token, t) ==
    IF refresh_validate(ss, us, token, t) = "Session expired"
    THEN invalidate_session(ss, UuidParse(token.session_id))
    ELSE IF /\ verify_token(token, "refresh", t) = "ok"
            /\ get_active_session(ss, UuidParse(token.session_id)) # {}
            /\ refresh_validate(ss, us, token, t) = "Invalid refresh token"
         THEN invalidate_session(ss, UuidParse(token.session_id))
    ELSE ss

\* The session table after a refresh_tokens that raises: only "Session
\* expired" writes, through invalidate_session
refresh_rejected_sessions(ss, us, token, t) ==
    IF refresh_validate(ss, us, token, t) = "Session expired"
    THEN invalidate_session(ss, UuidParse(token.session_id))
    ELSE ss

\* refresh_tokens through the signing of the new pair.  The reads of the
\* session and of the account, and on "Session expired" the write of
\* invalidate_session (which sets is_active = False whatever it reads), are
\* one step: no other handler's commit between them changes what they see
\* or do.
RefreshCheck(p, token) ==
    /\ Free(p)
    /\ LET out == refresh_validate(sessions, users, token, now) IN
       IF out = "pass"
       THEN LET sid == UuidParse(token.session_id)
                u == sessions[sid].user_id
                a == create_access_token(UuidStr(u), users[u].email,
                                         UuidStr(sid), now,
                                         Uuid4(sid, nextJti[sid] + 1))
                r == create_refresh_token(UuidStr(u), users[u].email,
                                          UuidStr(sid), now,
                                          Uuid4(sid, nextJti[sid] + 2))
            IN  /\ nRefresh < MaxRefresh
                /\ nRefresh' = nRefresh + 1
                /\ nextJti' = [nextJti EXCEPT ![sid] = @ + 2]
                /\ pc' = [pc EXCEPT ![p] = "refresh_update"]
                /\ loc' = [loc EXCEPT ![p] =
                       [op |-> "refresh", arg |-> token, session_id |-> sid,
                        access_token |-> a, refresh_token |-> r]]
                /\ signedAt' = signedAt \cup {[token |-> a, at |-> now],
                                             [token |-> r, at |-> now]}
                /\ UNCHANGED <<sessions, sessionExpired>>
       ELSE /\ sessions' = refresh_rejected_sessions(sessions, users, token, now)
            /\ sessionExpired' = IF out = "Session expired"
                                 THEN sessionExpired \cup {token}
                                 ELSE sessionExpired
            /\ UNCHANGED <<nRefresh, nextJti, pc, loc, signedAt>>
    /\ UNCHANGED <<now, ticks, users, issued, discarded, refreshed, logouts>>
    /\ UNCHANGED entryVars

\* A POST /auth/refresh that passes the message of the ValueError on
refresh_token_telling(ss, us, token, t) ==
    LET out == refresh_validate(ss, us, token, t) IN
    IF out = "pass"
    THEN [status_code |-> 200, detail |-> "TokenResponse"]
    ELSE [status_code |-> 401, detail |-> out]

\* POST /auth/refresh: the status and the body the caller gets.  Every
\* ValueError of refresh_tokens is answered with HTTP_401_UNAUTHORIZED and
\* one fixed detail.
refresh_token(ss, us, token, t) ==
    IF refresh_validate(ss, us, token, t) = "pass"
    THEN [status_code |-> 200, detail |-> "TokenResponse"]
    ELSE [status_code |-> 401, detail |-> "Invalid refresh token"]

\* refresh_tokens from session_repo.update_refresh_token to the return
RefreshUpdate(p) ==
    /\ pc[p] = "refresh_update"
    /\ sessions' = update_refresh_token(sessions, loc[p].session_id,
                       hash_refresh_token(loc[p].refresh_token),
                       now + RefreshTTL)
    /\ issued' = issued \cup {loc[p].access_token, loc[p].refresh_token}
    /\ refreshed' = refreshed \cup {[arg |-> loc[p].arg,
                                      ret |-> loc[p].refresh_token]}
    /\ pc' = [pc EXCEPT ![p] = "idle"]
    /\ loc' = [loc EXCEPT ![p] = NoLoc]
    /\ UNCHANGED <<now, ticks, users, nextJti, discarded, logouts, nRefresh,
                   sessionExpired, signedAt>>
    /\ UNCHANGED entryVars

\* ------------------------------------------------------- get_current_user
\* A get_current_user that does not look at the account's is_active
get_current_user_any_account(ss, us, token, t) ==
    IF verify_token(token, "access", t) # "ok" THEN "Invalid access token"
    ELSE IF get_active_session(ss, UuidParse(token.session_id)) = {}
         THEN "Invalid session"
    ELSE IF UuidParse(token.user_id) \notin DOMAIN us
         THEN "User not found or inactive"
    ELSE "ok"

\* A get_current_user that accepts an access token only while the session
\* stores the hash of the refresh token signed together with it
get_current_user_current_pair(ss, us, token, t) ==
    IF verify_token(token, "access", t) # "ok" THEN "Invalid access token"
    ELSE IF get_active_session(ss, UuidParse(token.session_id)) = {}
         THEN "Invalid session"
    ELSE IF ss[UuidParse(token.session_id)].refresh_token_hash.sha256.jti
               # Uuid4(token.jti[1], token.jti[2] + 1)
         THEN "Invalid session"
    ELSE LET u == UuidParse(token.user_id) IN
         IF ~(u \in DOMAIN us /\ us[u].is_active)
         THEN "User not found or inactive"
         ELSE "ok"

\* get_current_user: "ok" (the account named by the token is returned) or
\* the ValueError raised
get_current_user(ss, us, token, t) ==
    IF verify_token(token, "access", t) # "ok" THEN "Invalid access token"
    ELSE IF get_active_session(ss, UuidParse(token.session_id)) = {}
         THEN "Invalid session"
    ELSE LET u == UuidParse(token.user_id) IN
         IF ~(u \in DOMAIN us /\ us[u].is_active)
         THEN "User not found or inactive"
         ELSE "ok"

\* The account get_current_user returns: user_repo.get_by_id of the token's
\* user_id, or nothing when it raises
get_current_user_result(ss, us, token, t) ==
    IF get_current_user(ss, us, token, t) = "ok"
    THEN {UuidParse(token.user_id)}
    ELSE {}

\* get_current_user only reads
GetCurrentUser(p, token) ==
    /\ Free(p)
    /\ get_current_user(sessions, users, token, now) \in STRING
    /\ UNCHANGED vars

\* ------------------------------------------------------------ logout_user
\* A logout_user that lets the ValueError of verify_token through
logout_user_raising(ss, token, t) ==
    LET v == verify_token(token, "refresh", t) IN
    IF v = "ok"
    THEN LET sid == UuidParse(token.session_id) IN
         [sessions |-> invalidate_session(ss, sid),
          out |-> "ok",
          called |-> TRUE,
          ret |-> invalidate_session_result(ss, sid)]
    ELSE [sessions |-> ss, out |-> v, called |-> FALSE, ret |-> FALSE]

\* A logout_user that invalidates only for the session's current token
logout_user_hash_checked(ss, token, t) ==
    LET v == verify_token(token, "refresh", t) IN
    IF /\ v = "ok"
       /\ UuidParse(token.session_id) \in DOMAIN ss
       /\ ss[UuidParse(token.session_id)].refresh_token_hash
              = hash_refresh_token(token)
    THEN LET sid == UuidParse(token.session_id) IN
         [sessions |-> invalidate_session(ss, sid),
          out |-> "ok",
          called |-> TRUE,
          ret |-> invalidate_session_result(ss, sid)]
    ELSE [sessions |-> ss, out |-> "ok", called |-> FALSE, ret |-> FALSE]

\* logout_user: the session table afterwards, what the caller sees, whether
\* invalidate_session was called and the value it returned
logout_user(ss, token, t) ==
    LET v == verify_token(token, "refresh", t) IN
    IF v = "ok"
    THEN LET sid == UuidParse(token.session_id) IN
         [sessions |-> invalidate_session(ss, sid),
          out |-> "ok",
          called |-> TRUE,
          ret |-> invalidate_session_result(ss, sid)]
    ELSE \* except ValueError: pass
         [sessions |-> ss, out |-> "ok", called |-> FALSE, ret |-> FALSE]

\* token is an unexpired refresh token naming a session row
NamesSession(ss, token, t) ==
    /\ token # MalformedToken
    /\ token.token_type = "refresh"
    /\ t <= token.exp
    /\ UuidParse(token.session_id) \in DOMAIN ss

\* the session row token names stores token's hash
HashMatches(ss, token) ==
    ss[UuidParse(token.session_id)].refresh_token_hash = hash_refresh_token(token)

Logout(p, token) ==
    /\ Free(p)
    /\ LET r == logout_user(sessions, token, now) IN
       /\ sessions' = r.sessions
       /\ logouts' = IF NamesSession(sessions, token, now)
                     THEN logouts \cup
                          {[token |-> token,
                            matched |-> HashMatches(sessions, token)]}
                     ELSE logouts
    /\ UNCHANGED <<now, ticks, users, nextJti, pc, loc, issued, discarded,
                   refreshed, nRefresh,
                   sessionExpired, signedAt>>
    /\ UNCHANGED entryVars

\* ----------------------------------------------- invalidate_user_sessions
\* A get_user_sessions that forgets the user_id filter
get_user_sessions_any_user(ss, user_id) ==
    {s \in DOMAIN ss : ss[s].is_active}

\* get_user_sessions(user_id, active_only=True)
get_user_sessions(ss, user_id) ==
    {s \in DOMAIN ss : ss[s].user_id = user_id /\ ss[s].is_active}

\* the loop setting is_active = False, and the commit
deactivate_sessions(ss, found) ==
    [s \in DOMAIN ss |->
        IF s \in found THEN [ss[s] EXCEPT !.is_active = FALSE] ELSE ss[s]]

\* count, incremented once for each session the query returned
invalidate_user_sessions_count(found) == Cardinality(found)

\* invalidate_user_sessions through the query of the account's active
\* sessions and the loop over the rows it returned
InvalidateUserSessionsRead(p, user_id) ==
    /\ Free(p)
    /\ pc' = [pc EXCEPT ![p] = "invalidate_all_commit"]
    /\ loc' = [loc EXCEPT ![p] =
           [op |-> "invalidate_user_sessions",
            user_id |-> user_id,
            found |-> get_user_sessions(sessions, user_id),
            count |-> invalidate_user_sessions_count(
                          get_user_sessions(sessions, user_id))]]
    /\ UNCHANGED <<now, ticks, users, sessions, nextJti, issued,
                   discarded, refreshed, logouts, nRefresh,
                   sessionExpired, signedAt>>
    /\ UNCHANGED entryVars

\* invalidate_user_sessions from the commit to the return of count
InvalidateUserSessionsCommit(p) ==
    /\ pc[p] = "invalidate_all_commit"
    /\ sessions' = deactivate_sessions(sessions, loc[p].found)
    /\ pc' = [pc EXCEPT ![p] = "idle"]
    /\ loc' = [loc EXCEPT ![p] = NoLoc]
    /\ UNCHANGED <<now, ticks, users, nextJti, issued, discarded, refreshed,
                   logouts, nRefresh,
                   sessionExpired, signedAt>>
    /\ UNCHANGED entryVars

\* ----------------------------------------------- cleanup_expired_sessions
\* A query that also takes the sessions expiring at this instant
expired_sessions_at_expiry(ss, t) ==
    {s \in DOMAIN ss : ss[s].is_active /\ ss[s].expires_at <= t}

\* the query of cleanup_expired_sessions
expired_sessions(ss, t) ==
    {s \in DOMAIN ss : ss[s].is_active /\ ss[s].expires_at < t}

\* count, incremented once for each session the query returned
cleanup_expired_sessions_count(found) == Cardinality(found)

\* cleanup_expired_sessions through the reading of the clock, the query and
\* the loop over the rows it returned
CleanupRead(p) ==
    /\ Free(p)
    /\ pc' = [pc EXCEPT ![p] = "cleanup_commit"]
    /\ loc' = [loc EXCEPT ![p] =
           [op |-> "cleanup_expired_sessions",
            found |-> expired_sessions(sessions, now),
            count |-> cleanup_expired_sessions_count(
                          expired_sessions(sessions, now))]]
    /\ UNCHANGED <<now, ticks, users, sessions, nextJti, issued,
                   discarded, refreshed, logouts, nRefresh,
                   sessionExpired, signedAt>>
    /\ UNCHANGED entryVars

\* cleanup_expired_sessions from the commit to the return of count
CleanupCommit(p) ==
    /\ pc[p] = "cleanup_commit"
    /\ sessions' = deactivate_sessions(sessions, loc[p].found)
    /\ pc' = [pc EXCEPT ![p] = "idle"]
    /\ loc' = [loc EXCEPT ![p] = NoLoc]
    /\ UNCHANGED <<now, ticks, users, nextJti, issued, discarded, refreshed,
                   logouts, nRefresh,
                   sessionExpired, signedAt>>
    /\ UNCHANGED entryVars

\* ------------------------------------- activate_user / deactivate_user
SetUserActive(user_id, flag) ==
    /\ user_id \in DOMAIN users
    /\ users[user_id].is_active # flag
    /\ users' = [users EXCEPT ![user_id].is_active = flag]
    /\ UNCHANGED <<now, ticks, sessions, nextJti, pc, loc, issued,
                   discarded, refreshed, logouts, nRefresh,
                   sessionExpired, signedAt>>
    /\ UNCHANGED entryVars

\* ---------------------------------------------------------- bookkeeping
\* refresh tokens with which a refresh call has succeeded
spent == {g.arg : g \in refreshed}

\* sessions named by the token of a logout call
loggedOut == {UuidParse(l.token.session_id) : l \in logouts}

DeactivateUser(user_id) == SetUserActive(user_id, FALSE)

ActivateUser(user_id) == SetUserActive(user_id, TRUE)

\* Tokens a caller can present: those it was given, those login signed for
\* the temporary session id, and a string that is no token
Presentable == issued \cup discarded \cup {MalformedToken}

Next ==
    \/ Tick
    \/ \E p \in Procs, e \in Emails, w \in Passwords : RegisterCheck(p, e, w)
    \/ \E p \in Procs : RegisterInsert(p)
    \/ \E p \in Procs, e \in Emails, w \in Passwords :
            Len(sessions) < MaxSessions /\ LoginCreate(p, e, w)
    \/ \E p \in Procs : LoginRotate(p)
    \/ \E p \in Procs : LoginInterrupted(p)
    \/ \E p \in Procs, k \in Presentable : RefreshCheck(p, k)
    \/ \E p \in Procs : RefreshUpdate(p)
    \/ \E p \in Procs, k \in Presentable : GetCurrentUser(p, k)
    \/ \E p \in Procs, k \in Presentable : Logout(p, k)
    \/ \E p \in Procs, u \in UserIds : InvalidateUserSessionsRead(p, u)
    \/ \E p \in Procs : InvalidateUserSessionsCommit(p)
    \/ \E p \in Procs : CleanupRead(p)
    \/ \E p \in Procs : CleanupCommit(p)
    \/ \E u \in UserIds : DeactivateUser(u)
    \/ \E u \in UserIds : ActivateUser(u)

Spec == Init /\ [][Next]_vars

\* ------------------------------------------------ account specification
\* Registration, login and activation over several email addresses
AccountNext ==
    \/ \E p \in Procs, e \in AccountEmails, w \in Passwords :
            RegisterCheck(p, e, w)
    \/ \E p \in Procs : RegisterInsert(p)
    \/ \E p \in Procs, e \in AccountEmails, w \in Passwords :
            Len(sessions) < MaxSessions /\ LoginCreate(p, e, w)
    \/ \E p \in Procs : LoginRotate(p)
    \/ \E u \in AccountUserIds : DeactivateUser(u)
    \/ \E u \in AccountUserIds : ActivateUser(u)

AccountSpec == Init /\ [][AccountNext]_vars

\* -------------------------------------------------- clock specification
\* Login at clock readings that are not whole seconds
FineTick ==
    /\ ticks < MaxFineTicks
    /\ \E d \in FineTickSteps : now' = now + d
    /\ ticks' = ticks + 1
    /\ UNCHANGED <<users, sessions, nextJti, pc, loc, issued, discarded,
                   refreshed, logouts, nRefresh, sessionExpired, signedAt>>
    /\ UNCHANGED entryVars

ClockNext ==
    \/ FineTick
    \/ \E e \in Emails, w \in Passwords : RegisterCheck("p1", e, w)
    \/ RegisterInsert("p1")
    \/ \E e \in Emails, w \in Passwords :
            Len(sessions) < MaxSessions /\ LoginCreate("p1", e, w)
    \/ LoginRotate("p1")

ClockSpec == Init /\ [][ClockNext]_vars

\* ------------------------------------------------- device specification
\* Several logins of one account: login, refresh and logout interleaved
DeviceNext ==
    \/ \E e \in Emails, w \in Passwords : RegisterCheck("p1", e, w)
    \/ RegisterInsert("p1")
    \/ \E p \in Procs, e \in Emails, w \in Passwords :
            Len(sessions) < MaxDevices /\ LoginCreate(p, e, w)
    \/ \E p \in Procs : LoginRotate(p)
    \/ \E p \in Procs, k \in Presentable : RefreshCheck(p, k)
    \/ \E p \in Procs : RefreshUpdate(p)
    \/ \E p \in Procs, k \in Presentable : Logout(p, k)

DeviceSpec == Init /\ [][DeviceNext]_vars

\* -------------------------------------------------- sweep specification
\* Sessions of two accounts, the clock, and the two bulk invalidations
SweepEmails == {"a@x.com", "b@x.com"}

SweepUserIds == 1..Cardinality(SweepEmails)

SweepNext ==
    \/ Tick
    \/ \E e \in SweepEmails, w \in Passwords : RegisterCheck("p1", e, w)
    \/ RegisterInsert("p1")
    \/ \E p \in Procs, e \in SweepEmails, w \in Passwords :
            Len(sessions) < MaxDevices /\ LoginCreate(p, e, w)
    \/ \E p \in Procs : LoginRotate(p)
    \/ \E p \in Procs, u \in SweepUserIds : InvalidateUserSessionsRead(p, u)
    \/ \E p \in Procs : InvalidateUserSessionsCommit(p)
    \/ \E p \in Procs : CleanupRead(p)
    \/ \E p \in Procs : CleanupCommit(p)

SweepSpec == Init /\ [][SweepNext]_vars

\* ========================================================= entry ingestor
\* Bounds and inputs of the entry ingestor
MaxEntries == 2

EntryUsers == {"u1", "u2"}

Contents == {"I had a great day at work!", "Some content"}

\* AnalysisPayload values the NLP agent can answer with
Analyses == {[sentiment |-> [label |-> "POSITIVE", score |-> "0.8"],
              topics |-> <<"work", "productivity">>]}

\* What the POST to the NLP agent ends in: a response holding an analysis,
\* or one of the exceptions HTTPNLPClient.analyze_text catches
NlpReplies ==
    {[kind |-> "ok", body |-> {a}] : a \in Analyses}
    \cup {[kind |-> k, body |-> {}] :
              k \in {"RequestError", "HTTPStatusError", "Exception"}}

\* HTTPNLPClient.analyze_text: Optional[AnalysisPayload], None as {}
analyze_text(text, reply) ==
    IF reply.kind = "ok" THEN reply.body ELSE {}

\* A create_entry that calls store_insight whatever analyze_text returned
store_insight_args_always(entry_id, user_id, analysis) ==
    <<[entry_id |-> entry_id, user_id |-> user_id, analysis |-> analysis]>>

\* create_entry, "if analysis:": the calls of store_insight it makes
store_insight_args(entry_id, user_id, analysis) ==
    IF analysis # {}
    THEN <<[entry_id |-> entry_id, user_id |-> user_id, analysis |-> analysis]>>
    ELSE <<>>

\* MongoInsightStorage.store_insight: the document inserted; an exception of
\* insert_one is logged and the collection stays as it was
store_insight(docs, call, inserted) ==
    IF inserted THEN Append(docs, call) ELSE docs

\* create_entry through db.add, db.commit and db.refresh
CreateEntryCommit(p, user_id, content) ==
    /\ Free(p)
    /\ entries' = Append(entries, [user_id |-> user_id, content |-> content])
    /\ pc' = [pc EXCEPT ![p] = "entry_analyze"]
    /\ loc' = [loc EXCEPT ![p] = [op |-> "create_entry",
                                  entry_id |-> Len(entries) + 1,
                                  user_id |-> user_id,
                                  content |-> content]]
    /\ UNCHANGED <<now, ticks, users, sessions, nextJti, issued, discarded,
                   refreshed, logouts, nRefresh, sessionExpired, signedAt>>
    /\ UNCHANGED <<insights, analyzeCalls, storeCalls, returned>>

\* create_entry: the call of nlp_client.analyze_text
CreateEntryAnalyze(p, reply) ==
    /\ pc[p] = "entry_analyze"
    /\ analyzeCalls' = Append(analyzeCalls, [entry_id |-> loc[p].entry_id,
                                             text |-> loc[p].content])
    /\ pc' = [pc EXCEPT ![p] = "entry_store"]
    /\ loc' = [loc EXCEPT ![p] =
           [op |-> "create_entry", entry_id |-> loc[p].entry_id,
            user_id |-> loc[p].user_id, content |-> loc[p].content,
            analysis |-> analyze_text(loc[p].content, reply)]]
    /\ UNCHANGED <<now, ticks, users, sessions, nextJti, issued, discarded,
                   refreshed, logouts, nRefresh, sessionExpired, signedAt>>
    /\ UNCHANGED <<entries, insights, storeCalls, returned>>

\* create_entry from "if analysis:" to the return of db_entry
CreateEntryStore(p, inserted) ==
    /\ pc[p] = "entry_store"
    /\ LET calls == store_insight_args(loc[p].entry_id, loc[p].user_id,
                                       loc[p].analysis)
       IN  /\ storeCalls' = storeCalls \o calls
           /\ insights' = IF calls = <<>> THEN insights
                          ELSE store_insight(insights, calls[1], inserted)
    /\ returned' = returned \cup {[entry_id |-> loc[p].entry_id,
                                    user_id |-> loc[p].user_id,
                                    content |-> loc[p].content,
                                    analysis |-> loc[p].analysis]}
    /\ pc' = [pc EXCEPT ![p] = "idle"]
    /\ loc' = [loc EXCEPT ![p] = NoLoc]
    /\ UNCHANGED <<now, ticks, users, sessions, nextJti, issued, discarded,
                   refreshed, logouts, nRefresh, sessionExpired, signedAt>>
    /\ UNCHANGED <<entries, analyzeCalls>>

EntryNext ==
    \/ \E p \in Procs, u \in EntryUsers, c \in Contents :
            Len(entries) < MaxEntries /\ CreateEntryCommit(p, u, c)
    \/ \E p \in Procs, reply \in NlpReplies : CreateEntryAnalyze(p, reply)
    \/ \E p \in Procs, inserted \in BOOLEAN : CreateEntryStore(p, inserted)

EntrySpec == Init /\ [][EntryNext]_vars

\* ================================================================ claims
SessionOf(token) == UuidParse(token.session_id)

\* refresh tokens signed and not yet returned
InFlight == {loc[p].refresh_token : p \in {q \in Procs : pc[q] = "refresh_update"}}

\* every refresh token ever signed for session s
RefreshTokensOf(s) ==
    {k \in issued \cup discarded \cup InFlight :
        k.token_type = "refresh" /\ SessionOf(k) = s}

\* every token returned to a caller for session s
IssuedFor(s) == {k \in issued : SessionOf(k) = s}

\* nothing but the hash comparison can make refresh_tokens reject token
Usable(ss, us, token, t) ==
    /\ verify_token(token, "refresh", t) = "ok"
    /\ get_active_session(ss, SessionOf(token)) # {}
    /\ t <= ss[SessionOf(token)].expires_at
    /\ ss[SessionOf(token)].user_id \in DOMAIN us
    /\ us[ss[SessionOf(token)].user_id].is_active

C2_NoDoubleRefresh ==
    \A g1, g2 \in refreshed : g1.arg = g2.arg => g1.ret = g2.ret

\* C3: for every session, at most one of the refresh tokens ever signed for
\* it is accepted by refresh_tokens, and an accepted one has the stored hash.
C3_OneValidToken ==
    \A s \in DOMAIN sessions :
        LET acc == {k \in RefreshTokensOf(s) :
                      refresh_validate(sessions, users, k, now) = "pass"}
        IN  /\ Cardinality(acc) <= 1
            /\ \A k \in acc :
                 sessions[s].refresh_token_hash = hash_refresh_token(k)

\* a session with two unexpired refresh tokens returned to callers, one of
\* which is accepted
C3_Witness ==
    \E s \in DOMAIN sessions :
        /\ Cardinality({k \in IssuedFor(s) :
                          verify_token(k, "refresh", now) = "ok"}) >= 2
        /\ \E k \in IssuedFor(s) :
             refresh_validate(sessions, users, k, now) = "pass"

\* C4: a session's is_active never goes from false to true.
C4_InactiveIsTerminal ==
    [][\A s \in DOMAIN sessions :
          ~sessions[s].is_active => ~sessions'[s].is_active]_vars

\* a session logged out with its then-current token, on which the rotation
\* of a refresh that had read it before has since been committed
C4_Witness ==
    \E l \in logouts, g \in refreshed :
        /\ l.matched
        /\ l.token = g.arg
        /\ sessions[SessionOf(g.ret)].refresh_token_hash
              = hash_refresh_token(g.ret)
        /\ ~sessions[SessionOf(g.ret)].is_active

\* C5: once logout_user has been called with a token of a session, every
\* refresh_tokens and every get_current_user started with a token of that
\* session fails, expired or not.
C5_LoggedOutRejectsAll ==
    \A s \in loggedOut :
        \A k \in issued \cup discarded \cup InFlight :
            SessionOf(k) = s =>
                /\ refresh_validate(sessions, users, k, now) # "pass"
                /\ get_current_user(sessions, users, k, now) # "ok"

\* a logged-out session whose current refresh token and an access token are
\* both unexpired
C5_Witness ==
    \E s \in loggedOut :
        /\ \E k \in IssuedFor(s) :
             /\ verify_token(k, "refresh", now) = "ok"
             /\ HashMatches(sessions, k)
             /\ refresh_validate(sessions, users, k, now) = "Invalid session"
        /\ \E k \in IssuedFor(s) :
             /\ verify_token(k, "access", now) = "ok"
             /\ get_current_user(sessions, users, k, now) = "Invalid session"

\* C6: every session row stores the hash of a refresh token that was
\* returned to a caller for that session.
C6_LoginAtomic ==
    \A s \in DOMAIN sessions :
        \E k \in IssuedFor(s) :
            /\ k.token_type = "refresh"
            /\ sessions[s].refresh_token_hash = hash_refresh_token(k)

\* C7: logout_user raises for no token that can be presented, and a session
\* named by the token of a logout call is inactive from then on.
C7_LogoutNeverRaises ==
    /\ \A k \in Presentable : logout_user(sessions, k, now).out = "ok"
    /\ \A l \in logouts : ~sessions[SessionOf(l.token)].is_active

\* a logout was made with a token that is still valid (a second call with
\* it is possible), and an expired refresh token, an unexpired access token
\* and a refresh token naming no session row can be presented
C7_Witness ==
    /\ \E l \in logouts : verify_token(l.token, "refresh", now) = "ok"
    /\ \E k \in issued : k.token_type = "refresh" /\ now > k.exp
    /\ \E k \in issued : k.token_type = "access" /\ now <= k.exp
    /\ \E k \in discarded :
         k.token_type = "refresh" /\ SessionOf(k) \notin DOMAIN sessions

\* C8: logout_user with an unexpired refresh token whose hash is not the
\* stored one invalidates the session the token names.
C8_LogoutByStaleToken ==
    \A k \in issued :
        (NamesSession(sessions, k, now) /\ ~HashMatches(sessions, k)) =>
            LET r == logout_user(sessions, k, now) IN
            /\ r.called
            /\ r.ret
            /\ ~r.sessions[SessionOf(k)].is_active

\* a session that only superseded tokens were used to log out, inactive
C8_Witness ==
    \E l \in logouts :
        /\ ~l.matched
        /\ l.token \in spent
        /\ \A m \in logouts : SessionOf(m.token) = SessionOf(l.token) => ~m.matched
        /\ ~sessions[SessionOf(l.token)].is_active

\* login, one refresh (g), logout with the original token (l); the newest
\* token g.ret is unexpired and unused, its hash is the stored one, the
\* session has not expired and the account is active
AfterStaleLogout(l, g) ==
    /\ l.token = g.arg
    /\ ~l.matched
    /\ g.ret \notin spent
    /\ verify_token(g.ret, "refresh", now) = "ok"
    /\ HashMatches(sessions, g.ret)
    /\ now <= sessions[SessionOf(g.ret)].expires_at
    /\ users[sessions[SessionOf(g.ret)].user_id].is_active

\* C9 as stated: after login, refresh and logout with the original token, a
\* refresh with the newest token succeeds.
C9_RefreshAfterStaleLogout ==
    \A l \in logouts, g \in refreshed :
        AfterStaleLogout(l, g) =>
            refresh_validate(sessions, users, g.ret, now) = "pass"

\* C9 amended: after login, refresh and logout with the original token, a
\* refresh with the newest token is rejected with "Invalid session".
C9_RefreshAfterStaleLogoutRejected ==
    \A l \in logouts, g \in refreshed :
        AfterStaleLogout(l, g) =>
            refresh_validate(sessions, users, g.ret, now) = "Invalid session"

C9_Witness ==
    \E l \in logouts, g \in refreshed : AfterStaleLogout(l, g)

\* C10 as stated: invalidate_session returns false for a session that is
\* already inactive.
C10_SecondInvalidateFalse ==
    \A s \in DOMAIN sessions :
        ~sessions[s].is_active => invalidate_session_result(sessions, s) = FALSE

\* C10 amended: invalidate_session returns true for every session row,
\* active or already inactive, and leaves it inactive; it returns false, and
\* changes nothing, only for an id that names no row.
C10_InvalidateResult ==
    /\ \A s \in DOMAIN sessions :
         /\ invalidate_session_result(sessions, s) = TRUE
         /\ ~invalidate_session(sessions, s)[s].is_active
    /\ \A k \in discarded :
         /\ invalidate_session_result(sessions, SessionOf(k)) = FALSE
         /\ invalidate_session(sessions, SessionOf(k)) = sessions

\* a session that a logout has already made inactive, and an id naming no row
C10_Witness ==
    /\ \E s \in loggedOut : ~sessions[s].is_active
    /\ discarded # {}

\* C11: update_refresh_token never changes the is_active flag of any session,
\* whatever id, hash and expiry it is given and in every login or refresh
\* that commits it; for an id that has no row it returns None and changes no
\* session.
C11_RotateFrame ==
    /\ [](\A k \in issued \cup discarded \cup InFlight :
            LET sid == SessionOf(k)
                h == hash_refresh_token(k)
                e == now + RefreshTTL
                after == update_refresh_token(sessions, sid, h, e)
            IN  /\ DOMAIN after = DOMAIN sessions
                /\ \A s \in DOMAIN sessions :
                     after[s].is_active = sessions[s].is_active
                /\ sid \notin DOMAIN sessions =>
                     /\ after = sessions
                     /\ update_refresh_token_result(sessions, sid, h, e) = {})
    /\ [][\A p \in Procs :
            (pc[p] \in {"login_rotate", "refresh_update"} /\ pc'[p] = "idle") =>
                /\ DOMAIN sessions' = DOMAIN sessions
                /\ \A s \in DOMAIN sessions :
                     sessions'[s].is_active = sessions[s].is_active]_vars

\* a refresh has committed its rotation on a session that is inactive without
\* any logout, and a token naming no session row can be presented
C11_Witness ==
    /\ logouts = {}
    /\ \E g \in refreshed :
         /\ HashMatches(sessions, g.ret)
         /\ ~sessions[SessionOf(g.ret)].is_active
    /\ \E k \in discarded : SessionOf(k) \notin DOMAIN sessions

\* the credentials name no account / an inactive account / an active account
\* with another password
UnknownEmail(e) == \A u \in DOMAIN users : users[u].email # e

InactiveAccount(e) ==
    \E u \in DOMAIN users : users[u].email = e /\ ~users[u].is_active

WrongPassword(e, w) ==
    \E u \in DOMAIN users :
        /\ users[u].email = e
        /\ users[u].is_active
        /\ ~verify_password(w, users[u].password_hash)

\* C12: authenticate_user fails with "Invalid credentials" when the email is
\* unknown, when the account is inactive and when the password is wrong, and
\* in no other case.
C12_LoginErrorUniform ==
    \A e \in AccountEmails, w \in Passwords :
        LET out == authenticate_check(users, e, w) IN
        /\ (UnknownEmail(e) \/ InactiveAccount(e) \/ WrongPassword(e, w))
              => out = "Invalid credentials"
        /\ out \in {"Invalid credentials", "pass"}
        /\ out = "pass"
              => ~(UnknownEmail(e) \/ InactiveAccount(e) \/ WrongPassword(e, w))

\* an unknown email, an inactive account and an active account for which a
\* wrong password can be given, at once, after a login has succeeded
C12_Witness ==
    /\ \E e \in AccountEmails : UnknownEmail(e)
    /\ \E e \in AccountEmails : InactiveAccount(e)
    /\ \E e \in AccountEmails, w \in Passwords : WrongPassword(e, w)
    /\ \E u \in DOMAIN users : users[u].last_login >= 0

\* token is an unexpired refresh token whose hash is the one stored in the
\* active session it names
CurrentToken(token) ==
    /\ verify_token(token, "refresh", now) = "ok"
    /\ get_active_session(sessions, SessionOf(token)) # {}
    /\ HashMatches(sessions, token)

\* the account owning the session token names is missing or inactive
OwnerGone(token) ==
    \/ sessions[SessionOf(token)].user_id \notin DOMAIN users
    \/ ~users[sessions[SessionOf(token)].user_id].is_active

\* C13: refresh_tokens with an unexpired refresh token whose hash is the
\* stored one, for an active session whose expires_at has elapsed, is
\* rejected with "Session expired"; the call signs and returns no token, and
\* the session is inactive when it ends and from then on.
C13_ExpiredSessionRejected ==
    /\ [](\A k \in Presentable :
            (CurrentToken(k) /\ now > sessions[SessionOf(k)].expires_at) =>
                refresh_validate(sessions, users, k, now) = "Session expired")
    /\ [](\A k \in sessionExpired : ~sessions[SessionOf(k)].is_active)
    /\ [][\A k \in sessionExpired' \ sessionExpired :
            /\ CurrentToken(k)
            /\ now > sessions[SessionOf(k)].expires_at
            /\ ~sessions'[SessionOf(k)].is_active
            /\ issued' = issued
            /\ nextJti' = nextJti
            /\ pc' = pc]_vars

\* a refresh was rejected with "Session expired" for a token that is still
\* unexpired and whose hash is the stored one, of an active account
C13_Witness ==
    \E k \in sessionExpired :
        /\ verify_token(k, "refresh", now) = "ok"
        /\ HashMatches(sessions, k)
        /\ ~OwnerGone(k)
        /\ ~sessions[SessionOf(k)].is_active

\* C14 as stated: refresh_tokens for a session whose owning account is
\* missing or inactive is rejected and leaves the session's hash, expiry
\* and active flag unchanged.
C14_OwnerGoneLeavesSession ==
    \A k \in Presentable :
        (CurrentToken(k) /\ OwnerGone(k)) =>
            /\ refresh_validate(sessions, users, k, now) # "pass"
            /\ refresh_rejected_sessions(sessions, users, k, now) = sessions

\* C14 amended: refresh_tokens for a session whose expires_at has not
\* elapsed and whose owning account is missing or inactive is rejected with
\* "User not found or inactive" and leaves the session's hash, expiry and
\* active flag unchanged; when expires_at has elapsed it is rejected with
\* "Session expired" and the session is made inactive.
C14_OwnerGoneRejected ==
    \A k \in Presentable :
        (CurrentToken(k) /\ OwnerGone(k)) =>
            IF now <= sessions[SessionOf(k)].expires_at
            THEN /\ refresh_validate(sessions, users, k, now)
                      = "User not found or inactive"
                 /\ refresh_rejected_sessions(sessions, users, k, now) = sessions
            ELSE /\ refresh_validate(sessions, users, k, now) = "Session expired"
                 /\ ~refresh_rejected_sessions(sessions, users, k, now)
                        [SessionOf(k)].is_active

\* the account is inactive while its session is active, has not expired and
\* its current refresh token, returned by a refresh, is unexpired
C14_Witness ==
    \E g \in refreshed :
        /\ CurrentToken(g.ret)
        /\ OwnerGone(g.ret)
        /\ now <= sessions[SessionOf(g.ret)].expires_at

\* the configured time-to-live of a token's kind
TTL(token) == IF token.token_type = "access" THEN AccessTTL ELSE RefreshTTL

\* C19 as stated: a token of either kind signed at time t with time-to-live
\* T is accepted by verify_token at every time earlier than t + T and
\* rejected at every time later than t + T.
C19_ValidUntilTTL ==
    \A g \in signedAt :
        LET out == verify_token(g.token, g.token.token_type, now) IN
        /\ now < g.at + TTL(g.token) => out = "ok"
        /\ now > g.at + TTL(g.token) => out = "ValueError"

\* C19 amended: a token of either kind signed at time t with time-to-live T
\* is accepted by verify_token exactly at the times not later than t + T
\* with its fraction of a second dropped; so it is rejected at every time
\* later than t + T, accepted at every time at least one second earlier than
\* t + T, and rejected in the last fraction of a second before t + T.
C19_ValidUntilWholeSecond ==
    \A g \in signedAt :
        LET out == verify_token(g.token, g.token.token_type, now)
            last == numeric_date(g.at + TTL(g.token))
        IN  /\ out = IF now <= last THEN "ok" ELSE "ValueError"
            /\ now > g.at + TTL(g.token) => out = "ValueError"
            /\ now <= g.at + TTL(g.token) - ClockResolution => out = "ok"

\* an access token returned by a login at a time that is not a whole second,
\* now in the last fraction of a second of its lifetime, while the refresh
\* token signed with it is accepted
C19_Witness ==
    \E g, h \in signedAt :
        /\ g.token \in issued
        /\ h.token \in issued
        /\ g.token.token_type = "access"
        /\ h.token.token_type = "refresh"
        /\ g.at = h.at
        /\ numeric_date(g.at + AccessTTL) < now
        /\ now < g.at + AccessTTL
        /\ verify_token(g.token, "access", now) = "ValueError"
        /\ verify_token(h.token, "refresh", now) = "ok"

\* token is an unexpired access token, the session it names is active and
\* the account it names exists and is active
GoodAccessToken(token) ==
    /\ token # MalformedToken
    /\ token.token_type = "access"
    /\ now <= token.exp
    /\ SessionOf(token) \in DOMAIN sessions
    /\ sessions[SessionOf(token)].is_active
    /\ UuidParse(token.user_id) \in DOMAIN users
    /\ users[UuidParse(token.user_id)].is_active

\* C15: get_current_user returns an account exactly when the token is an
\* unexpired access token, the session it names is active and the account it
\* names exists and is active; the account returned is the one the token's
\* user_id names.
C15_CurrentUser ==
    \A k \in Presentable :
        /\ (get_current_user(sessions, users, k, now) = "ok") <=> GoodAccessToken(k)
        /\ get_current_user_result(sessions, users, k, now)
             = IF GoodAccessToken(k) THEN {UuidParse(k.user_id)} ELSE {}

\* an access token for which the account is returned, next to an access
\* token of the same session that has expired
C15_Witness ==
    \E k1, k2 \in issued :
        /\ get_current_user_result(sessions, users, k1, now) = {UuidParse(k1.user_id)}
        /\ k2.token_type = "access"
        /\ SessionOf(k2) = SessionOf(k1)
        /\ now > k2.exp
        /\ get_current_user(sessions, users, k2, now) = "Invalid access token"

\* C16: refresh_tokens rejects an access token and logout_user ignores one,
\* both leaving the session table unchanged, and get_current_user rejects a
\* refresh token.
C16_TokenTypeChecked ==
    \A k \in Presentable \ {MalformedToken} :
        /\ k.token_type = "access" =>
             /\ refresh_validate(sessions, users, k, now) = "Invalid refresh token"
             /\ refresh_rejected_sessions(sessions, users, k, now) = sessions
             /\ logout_user(sessions, k, now).out = "ok"
             /\ ~logout_user(sessions, k, now).called
             /\ logout_user(sessions, k, now).sessions = sessions
        /\ k.token_type = "refresh" =>
             /\ get_current_user(sessions, users, k, now) = "Invalid access token"
             /\ get_current_user_result(sessions, users, k, now) = {}

\* an unexpired access token and the current refresh token of the same
\* active session of an active account: each is accepted where its type is
\* expected
C16_Witness ==
    \E a, r \in issued :
        /\ GoodAccessToken(a)
        /\ r.token_type = "refresh"
        /\ SessionOf(r) = SessionOf(a)
        /\ refresh_validate(sessions, users, r, now) = "pass"
        /\ get_current_user(sessions, users, a, now) = "ok"

\* the accounts stored with an email
AccountsWith(us, e) == {u \in DOMAIN us : us[u].email = e}

\* C17: there is at most one account per email under every interleaving of
\* create_user calls; a create_user that reaches the insert after passing
\* the email_exists check creates the account if none has the email, and
\* otherwise fails with "User with this email already exists" and creates
\* nothing, so of two such calls for one email exactly one creates it.
C17_OneAccountPerEmail ==
    /\ [](\A e \in AccountEmails : Cardinality(AccountsWith(users, e)) <= 1)
    /\ [][\A p \in Procs :
            (pc[p] = "register_insert" /\ pc'[p] = "idle") =>
                /\ Cardinality(AccountsWith(users', loc[p].email)) = 1
                /\ IF AccountsWith(users, loc[p].email) # {}
                   THEN /\ users' = users
                        /\ create_user_insert(users, loc[p].email)
                             = "User with this email already exists"
                   ELSE /\ Len(users') = Len(users) + 1
                        /\ create_user_insert(users, loc[p].email) = "created"]_vars

\* two registrations for one email had both passed the email_exists check;
\* one has created the account and the other is at its insert
C17_Witness ==
    \E p \in Procs :
        /\ pc[p] = "register_insert"
        /\ AccountsWith(users, loc[p].email) # {}
        /\ create_user_insert(users, loc[p].email)
             = "User with this email already exists"

\* str.lower on the email addresses of the model
lower(e) == IF e = "A@x.com" THEN "a@x.com" ELSE e

\* C18: create_user rejects a registration whose email differs only in
\* letter case from the email of an existing account, and no two accounts
\* have emails that differ only in letter case.
C18_CaseInsensitiveUnique ==
    \A u1, u2 \in DOMAIN users :
        lower(users[u1].email) = lower(users[u2].email) => u1 = u2

\* C20: a successful authenticate_user creates a session row with an id no
\* row had and leaves every existing session row unchanged, in its insert
\* and in its rotation; logout_user changes no session row but the one its
\* token names.
C20_SessionsIndependent ==
    /\ [][\A p \in Procs :
            (pc[p] = "idle" /\ pc'[p] = "login_rotate") =>
                /\ loc'[p].session_id \notin DOMAIN sessions
                /\ DOMAIN sessions' = DOMAIN sessions \cup {loc'[p].session_id}
                /\ \A s \in DOMAIN sessions : sessions'[s] = sessions[s]]_vars
    /\ [][\A p \in Procs :
            (pc[p] = "login_rotate" /\ pc'[p] = "idle") =>
                \A s \in DOMAIN sessions \ {loc[p].session_id} :
                    sessions'[s] = sessions[s]]_vars
    /\ [](\A k \in issued \cup discarded :
            LET after == logout_user(sessions, k, now).sessions IN
            /\ DOMAIN after = DOMAIN sessions
            /\ \A s \in DOMAIN sessions \ {SessionOf(k)} :
                 after[s] = sessions[s])
    /\ [][\A l \in logouts' \ logouts :
            \A s \in DOMAIN sessions \ {SessionOf(l.token)} :
                sessions'[s] = sessions[s]]_vars

\* two sessions of one account, one logged out and inactive, the other
\* active and accepting its refresh token and its access token
C20_Witness ==
    \E s1, s2 \in DOMAIN sessions :
        /\ s1 # s2
        /\ sessions[s1].user_id = sessions[s2].user_id
        /\ s1 \in loggedOut
        /\ ~sessions[s1].is_active
        /\ sessions[s2].is_active
        /\ \E k \in IssuedFor(s2) :
             refresh_validate(sessions, users, k, now) = "pass"
        /\ \E k \in IssuedFor(s2) :
             get_current_user(sessions, users, k, now) = "ok"

\* the sessions of account u that are active in the table ss
ActiveSessionsOf(ss, u) ==
    {s \in DOMAIN ss : ss[s].user_id = u /\ ss[s].is_active}

\* p takes the step of invalidate_user_sessions that reads / that commits
InvalidateAllReads(p) ==
    pc[p] = "idle" /\ pc'[p] = "invalidate_all_commit"

InvalidateAllReturns(p) ==
    pc[p] = "invalidate_all_commit" /\ pc'[p] = "idle"

\* C21 (as stated): invalidate_user_sessions(u) returns the number of
\* sessions of account u that were active when it ran; afterwards no session
\* of u is active, and the sessions of every other account are unchanged.
C21_NoSessionActiveAfterwards ==
    [][\A p \in Procs :
          /\ InvalidateAllReads(p) =>
                loc'[p].count
                    = Cardinality(ActiveSessionsOf(sessions, loc'[p].user_id))
          /\ InvalidateAllReturns(p) =>
                /\ ActiveSessionsOf(sessions', loc[p].user_id) = {}
                /\ \A s \in DOMAIN sessions :
                      sessions[s].user_id # loc[p].user_id
                          => sessions'[s] = sessions[s]]_vars

\* C21 (amended): invalidate_user_sessions(u) returns the number of sessions
\* of account u that were active when it read them and leaves none of those
\* active; every session it did not read, of another account or of u and
\* created after the read, is unchanged, and no other column is written.
C21_SessionsReadInvalidated ==
    /\ [](\A p \in Procs :
            pc[p] = "invalidate_all_commit" =>
                \A s \in loc[p].found :
                    s \in DOMAIN sessions
                    /\ sessions[s].user_id = loc[p].user_id)
    /\ [][\A p \in Procs :
            /\ InvalidateAllReads(p) =>
                  /\ loc'[p].found
                        = ActiveSessionsOf(sessions, loc'[p].user_id)
                  /\ loc'[p].count = Cardinality(loc'[p].found)
            /\ InvalidateAllReturns(p) =>
                  /\ DOMAIN sessions' = DOMAIN sessions
                  /\ \A s \in DOMAIN sessions :
                        sessions'[s] =
                            IF s \in loc[p].found
                            THEN [sessions[s] EXCEPT !.is_active = FALSE]
                            ELSE sessions[s]]_vars

\* invalidate_user_sessions has ended an unexpired session of one account
\* (cleanup_expired_sessions ends only expired ones) while a session of
\* another account is active, and a call that counted one session of its
\* account is about to commit on a table that has changed since it read
C21_Witness ==
    /\ \E s, o \in DOMAIN sessions :
          /\ ~sessions[s].is_active
          /\ sessions[s].expires_at >= now
          /\ sessions[o].user_id # sessions[s].user_id
          /\ sessions[o].is_active
    /\ \E p \in Procs :
          /\ pc[p] = "invalidate_all_commit"
          /\ loc[p].count = 1
          /\ ActiveSessionsOf(sessions, loc[p].user_id) # loc[p].found

\* p takes the step of authenticate_user that returns the token pair
LoginReturns(p) ==
    pc[p] = "login_rotate" /\ pc'[p] = "idle" /\ issued' # issued

\* C22: after a successful authenticate_user both returned tokens carry the
\* id of the newly created session, that session is active and its stored
\* hash is the hash of the returned refresh token, so a refresh_tokens with
\* that token right away (the account still active, the expiry computed at
\* the start of the login not yet elapsed) succeeds.
C22_LoginReturnsLiveSession ==
    [][\A p \in Procs :
          LoginReturns(p) =>
              LET sid == loc[p].session_id
                  ret == issued' \ issued
              IN  /\ \A k \in ret : SessionOf(k) = sid
                  /\ \E a \in ret : a.token_type = "access"
                  /\ sessions'[sid].is_active
                  /\ \E r \in ret :
                        /\ r.token_type = "refresh"
                        /\ sessions'[sid].refresh_token_hash
                               = hash_refresh_token(r)
                        /\ (users'[loc[p].user_id].is_active
                               /\ now <= loc[p].expires_at)
                              => refresh_validate(sessions', users', r, now)
                                     = "pass"]_vars

\* the ValueError refresh_tokens raises for token now, "pass" if none
RefreshFailure(token) == refresh_validate(sessions, users, token, now)

\* C23: POST /auth/refresh answers every authentication failure (bad
\* signature, wrong token type, expired token, unknown or inactive session,
\* hash mismatch, expired session, inactive user) with status 401 and one
\* detail text, whichever check of refresh_tokens failed.
C23_RefreshFailureUniform ==
    /\ \A k \in Presentable :
          RefreshFailure(k) # "pass" =>
              refresh_token(sessions, users, k, now)
                  = [status_code |-> 401, detail |-> "Invalid refresh token"]
    /\ \A k1, k2 \in Presentable :
          (RefreshFailure(k1) # "pass" /\ RefreshFailure(k2) # "pass") =>
              refresh_token(sessions, users, k1, now)
                  = refresh_token(sessions, users, k2, now)
    /\ \A k \in Presentable :
          RefreshFailure(k) = "pass" =>
              refresh_token(sessions, users, k, now).status_code = 200

\* tokens that fail at different checks at once: one that is no token, an
\* access token, a refresh token naming no session row, a superseded one,
\* and the current one of an inactive account
C23_Witness ==
    /\ RefreshFailure(MalformedToken) = "Invalid refresh token"
    /\ \E k \in issued :
          k.token_type = "access" /\ now <= k.exp
          /\ RefreshFailure(k) = "Invalid refresh token"
    /\ \E k \in discarded : RefreshFailure(k) = "Invalid session"
    /\ \E k \in spent :
          /\ verify_token(k, "refresh", now) = "ok"
          /\ get_active_session(sessions, SessionOf(k)) # {}
          /\ RefreshFailure(k) = "Invalid refresh token"
    /\ \E k \in issued : RefreshFailure(k) = "User not found or inactive"

\* the calls of store_insight made for entry e
StoreCallsFor(e) ==
    {i \in DOMAIN storeCalls : storeCalls[i].entry_id = e}

\* C24: create_entry commits the journal entry before it requests the
\* analysis; store_insight is called exactly once, with the entry's ids and
\* the analysis, when analyze_text returned one and never when it returned
\* None; in both cases the committed entry is what is returned, and it
\* stays committed.
C24_EntryCommittedFirst ==
    /\ [](\A i \in DOMAIN analyzeCalls :
              /\ analyzeCalls[i].entry_id \in DOMAIN entries
              /\ entries[analyzeCalls[i].entry_id].content
                     = analyzeCalls[i].text)
    /\ [](\A r \in returned :
              /\ r.entry_id \in DOMAIN entries
              /\ entries[r.entry_id] = [user_id |-> r.user_id,
                                        content |-> r.content]
              /\ Cardinality(StoreCallsFor(r.entry_id))
                     = IF r.analysis = {} THEN 0 ELSE 1
              /\ \A i \in StoreCallsFor(r.entry_id) :
                     storeCalls[i] = [entry_id |-> r.entry_id,
                                      user_id |-> r.user_id,
                                      analysis |-> r.analysis])
    /\ [](\A p \in Procs :
              pc[p] \in {"entry_analyze", "entry_store"} =>
                  /\ loc[p].entry_id \in DOMAIN entries
                  /\ StoreCallsFor(loc[p].entry_id) = {})
    /\ [][\A e \in DOMAIN entries :
              e \in DOMAIN entries' /\ entries'[e] = entries[e]]_vars

\* one entry was returned with its analysis after one call of
\* store_insight whose insert failed, another without analysis and without
\* a call, and both are committed
C24_Witness ==
    \E r1, r2 \in returned :
        /\ r1.analysis # {}
        /\ r2.analysis = {}
        /\ Cardinality(StoreCallsFor(r1.entry_id)) = 1
        /\ StoreCallsFor(r2.entry_id) = {}
        /\ insights = <<>>
        /\ {r1.entry_id, r2.entry_id} = DOMAIN entries
        /\ Len(analyzeCalls) = 2

\* p takes the step of cleanup_expired_sessions that reads / that commits
CleanupReads(p) == pc[p] = "idle" /\ pc'[p] = "cleanup_commit"

CleanupReturns(p) == pc[p] = "cleanup_commit" /\ pc'[p] = "idle"

\* C25: cleanup_expired_sessions marks inactive exactly the sessions that
\* its query found active with expires_at earlier than the time it read,
\* returns their number, and leaves every other session, and every other
\* column of the sessions it marks, unchanged.
C25_CleanupExactlyExpired ==
    [][\A p \in Procs :
          /\ CleanupReads(p) =>
                /\ \A s \in DOMAIN sessions :
                      s \in loc'[p].found
                          <=> (sessions[s].is_active
                               /\ sessions[s].expires_at < now)
                /\ loc'[p].found \subseteq DOMAIN sessions
                /\ loc'[p].count = Cardinality(loc'[p].found)
          /\ CleanupReturns(p) =>
                /\ DOMAIN sessions' = DOMAIN sessions
                /\ \A s \in DOMAIN sessions :
                      sessions'[s] =
                          IF s \in loc[p].found
                          THEN [sessions[s] EXCEPT !.is_active = FALSE]
                          ELSE sessions[s]]_vars

\* a call that counted one expired session is about to commit, next to an
\* active session that expires at this instant and was not counted
C25_Witness ==
    \E p \in Procs :
        /\ pc[p] = "cleanup_commit"
        /\ loc[p].count = 1
        /\ \E s \in loc[p].found :
              sessions[s].is_active /\ sessions[s].expires_at < now
        /\ \E o \in DOMAIN sessions \ loc[p].found :
              sessions[o].is_active /\ sessions[o].expires_at = now

\* p takes the step of refresh_tokens that returns the token pair
RefreshReturns(p) == pc[p] = "refresh_update" /\ pc'[p] = "idle"

\* C26: once a session is inactive its refresh_token_hash and expires_at are
\* never modified again and no refresh_tokens call returns a token pair for
\* it, also when the call read the session as active before a logout_user
\* of the same session.
C26_InactiveSessionFrozen ==
    [][\A s \in DOMAIN sessions :
          ~sessions[s].is_active =>
              /\ sessions'[s].refresh_token_hash
                     = sessions[s].refresh_token_hash
              /\ sessions'[s].expires_at = sessions[s].expires_at
              /\ \A p \in Procs :
                    RefreshReturns(p) => loc[p].session_id # s]_vars

\* token is an unexpired refresh token naming an active session that stores
\* the hash of another token
HashMismatch(token) ==
    /\ verify_token(token, "refresh", now) = "ok"
    /\ get_active_session(sessions, SessionOf(token)) # {}
    /\ sessions[SessionOf(token)].refresh_token_hash
           # hash_refresh_token(token)

\* C27: a refresh_tokens call rejected for hash mismatch leaves the session
\* table as it was (the session active, its stored hash and expiry
\* unchanged), so a refresh token that was accepted before the call is
\* accepted after it.
C27_MismatchLeavesSession ==
    \A k \in Presentable \ {MalformedToken} :
        HashMismatch(k) =>
            LET after == refresh_rejected_sessions(sessions, users, k, now)
                sid == SessionOf(k)
            IN  /\ refresh_validate(sessions, users, k, now)
                       = "Invalid refresh token"
                /\ after = sessions
                /\ after[sid].is_active
                /\ after[sid].refresh_token_hash
                       = sessions[sid].refresh_token_hash
                /\ after[sid].expires_at = sessions[sid].expires_at
                /\ \A c \in Presentable \cup InFlight :
                      refresh_validate(sessions, users, c, now) = "pass"
                          => refresh_validate(after, users, c, now) = "pass"

\* a superseded refresh token, unexpired, whose session is active and
\* stores the hash of the token that replaced it, which is accepted after
\* the superseded one has been rejected
C27_Witness ==
    \E g \in refreshed :
        /\ HashMismatch(g.arg)
        /\ SessionOf(g.ret) = SessionOf(g.arg)
        /\ HashMatches(sessions, g.ret)
        /\ refresh_validate(
               refresh_rejected_sessions(sessions, users, g.arg, now),
               users, g.ret, now) = "pass"

\* C28: an authenticate_user that fails (unknown email, inactive account or
\* wrong password) creates no session and changes neither an account's
\* last_login, nor any existing session, nor anything else stored.
C28_FailedLoginWritesNothing ==
    [][\A p \in Procs, e \in AccountEmails, w \in Passwords :
          ((UnknownEmail(e) \/ InactiveAccount(e) \/ WrongPassword(e, w))
           /\ LoginCreate(p, e, w))
              => /\ sessions' = sessions
                 /\ users' = users
                 /\ pc'[p] = "idle"
                 /\ issued' = issued]_vars

\* a login can fail in each of the three ways while an account that has
\* logged in before has an active session
C28_Witness ==
    /\ \E p \in Procs : Free(p)
    /\ \E e \in AccountEmails : UnknownEmail(e)
    /\ \E e \in AccountEmails : InactiveAccount(e)
    /\ \E e \in AccountEmails, w \in Passwords, s \in DOMAIN sessions :
          /\ WrongPassword(e, w)
          /\ sessions[s].is_active
          /\ users[sessions[s].user_id].email = e
          /\ users[sessions[s].user_id].last_login >= 0
          /\ authenticate_check(users, e, w) = "Invalid credentials"

\* access token a was signed for its session before the refresh_tokens
\* call g, which has returned, signed its new pair for that session
IssuedBeforeRefresh(a, g) ==
    /\ a.token_type = "access"
    /\ SessionOf(a) = SessionOf(g.ret)
    /\ a.jti[1] = g.ret.jti[1]
    /\ a.jti[2] < g.ret.jti[2] - 1

\* C29 (as stated): an access token issued before a successful
\* refresh_tokens on its session is accepted by get_current_user after the
\* rotation as long as the token has not expired and the session is active.
C29_AccessSurvivesRotation ==
    \A a \in issued, g \in refreshed :
        (/\ IssuedBeforeRefresh(a, g)
         /\ now <= a.exp
         /\ sessions[SessionOf(a)].is_active)
            => get_current_user(sessions, users, a, now) = "ok"

\* C29 (amended): such a token is accepted after the rotation exactly as
\* long as it has not expired, the session is active and the account it
\* names is active; the rotation itself never makes it rejected.
C29_AccessSurvivesRotationOfActive ==
    \A a \in issued, g \in refreshed :
        IssuedBeforeRefresh(a, g) =>
            (get_current_user(sessions, users, a, now) = "ok"
                <=> /\ now <= a.exp
                    /\ sessions[SessionOf(a)].is_active
                    /\ users[UuidParse(a.user_id)].is_active)

\* an access token returned by the login is accepted after two rotations of
\* its session, whose stored hash is the last refresh token returned
C29_Witness ==
    \E a \in issued, g1, g2 \in refreshed :
        /\ IssuedBeforeRefresh(a, g1)
        /\ g2.arg = g1.ret
        /\ HashMatches(sessions, g2.ret)
        /\ get_current_user(sessions, users, a, now) = "ok"

\* every token signed so far, and a string that is no token
Signed == {x.token : x \in signedAt} \cup {MalformedToken}

\* C30: while an authenticate_user is between create_session and
\* update_refresh_token, refresh_tokens accepts no token for the new
\* session: the token whose hash the row stores names a temporary session
\* id that has no session row, and is rejected.
C30_NoRefreshInLoginWindow ==
    \A p \in Procs :
        pc[p] = "login_rotate" =>
            LET sid == loc[p].session_id IN
            /\ sid \in DOMAIN sessions
            /\ \A k \in Signed :
                  refresh_validate(sessions, users, k, now) = "pass"
                      => SessionOf(k) # sid
            /\ \A k \in Signed \ {MalformedToken} :
                  sessions[sid].refresh_token_hash = hash_refresh_token(k)
                      => /\ SessionOf(k) \notin DOMAIN sessions
                         /\ refresh_validate(sessions, users, k, now)
                                # "pass"

\* a login is in the window: its row is active and stores the hash of an
\* unexpired token signed for the temporary id, which is rejected for its
\* session, while the token of another session is accepted
C30_Witness ==
    \E p \in Procs, k \in discarded, c \in issued :
        /\ pc[p] = "login_rotate"
        /\ sessions[loc[p].session_id].is_active
        /\ sessions[loc[p].session_id].refresh_token_hash
               = hash_refresh_token(k)
        /\ verify_token(k, "refresh", now) = "ok"
        /\ refresh_validate(sessions, users, k, now) = "Invalid session"
        /\ refresh_validate(sessions, users, c, now) = "pass"
====
